---- MODULE Spec2Model ----
(***************************************************************************)
(* A model of StoryScraperFramework (src/ScraperV2.3.8.py): the retried    *)
(* fetch, the three breadth-first page traversals of scrape_story, the     *)
(* chapter ordering of a series, and the listing loop of scrape_category.  *)
(***************************************************************************)
EXTENDS Integers, Sequences, FiniteSets, TLC

VARIABLES
    \* make_request_with_retry, run on its own
    rq,         \* the call's inputs: url, max_retries, what each attempt meets
    rs,         \* the call's outcome [result, log]; Pending before the call
    \* scrape_story: its arguments, its position and its locals
    stitle, surl, full_series,
    at,         \* where the call stands: start, find, series, chapter, single, walk, done
    result,     \* what the call returned: "True" or "False" ("running" before)
    todo,       \* the queue of the running traversal (todo; pages in a chapter)
    done,       \* its visited set
    part,       \* its page index
    pc,         \* the running chapter's content
    allc,       \* the document's content
    series,     \* the series link find_series_link_from_all_pages returned
    title,      \* st in series mode, ft in single-story mode
    safe,       \* the sanitized title
    ch_links,   \* the sorted chapter list of the series
    discovered, \* the chapter list as the series page gave it
    cnum,       \* the running chapter's number
    pp,         \* the paragraphs of surl, kept from the first fetch
    surl_links, \* the next links of surl, kept from the first fetch
    files,      \* the names of the .pdf files in downloads_folder
    site,       \* the urls of the site's story pages
    world,      \* what the site serves: "any" page, or only "plain" ones
    html,       \* the p elements of a page given to extract_story_content
    \* what happened, kept for the properties
    fetched,    \* how often the running traversal requested each url
    popped,     \* the urls the running traversal popped, in order
    disc,       \* the urls the running traversal put on its queue, in order
    kinds,      \* the stages of this call that requested a url
    renders,    \* the calls of create_pdf: title, filename, size, outcome
    written,    \* the content create_pdf wrote last
    skipped,    \* the call returned at an existing artifact
    chapOut,    \* each finished chapter: its content, how many pages it fetched
    \* scrape_category: its arguments, its position and its locals
    base_url, max_pages,
    cat_at,     \* where the call stands: idle, loop, stories, end
    cur, found, saved,
    pages_done, \* the listing urls visited in this run (done)
    stories,    \* the story links of the listing page at hand
    story_i,    \* the place in stories of the link at hand (i)
    pagelog,    \* the listing pages requested, in order
    calls,      \* the calls of scrape_story for the page at hand
    handed,     \* the story urls given to scrape_story so far
    again,      \* the story urls given to scrape_story more than once
    stop,       \* why the listing loop ended
    crawl       \* the calls of scrape_story of the whole crawl, as they returned

fetchVars == <<rq, rs>>
argVars   == <<stitle, surl, full_series, site, world, html>>
walkVars  == <<todo, done, part, pc>>
docVars   == <<allc, series, title, safe, ch_links, discovered, cnum, pp, surl_links>>
histVars  == <<fetched, popped, disc, kinds, renders, written, skipped, chapOut>>
storyVars == <<argVars, at, result, walkVars, docVars, files, histVars>>
catVars   == <<base_url, max_pages, cat_at, cur, found, saved, pages_done, stories,
               story_i, pagelog, calls, handed, again, stop, crawl>>
vars == <<fetchVars, storyVars, catVars>>

None == "None"

\* a url is [host, path]; NoUrl stands for Python's None where a url is expected
NoUrl == [host |-> <<>>, path |-> -1]

(***************************************************************************)
(* Strings are sequences of one-character strings.                         *)
(***************************************************************************)
Contains(s, k) ==
    \E i \in 1..(Len(s) - Len(k) + 1) : SubSeq(s, i, i + Len(k) - 1) = k

LowerChar(c) ==
    CASE c = "R" -> "r"
      [] c = "T" -> "t"
      [] c = "A" -> "a"
      [] OTHER -> c

Lower(s) == [i \in 1..Len(s) |-> LowerChar(s[i])]

(***************************************************************************)
(* make_request_with_retry                                                 *)
(***************************************************************************)
blocked ==
    << <<"r","e","d","d","i","t">>,
       <<"t","w","i","t","t","e","r">>,
       <<"f","a","c","e","b","o","o","k">>,
       <<"t","w","i","t","c","h">> >>

\* host = urlparse(url).hostname.lower() if urlparse(url).hostname else ''
\* (a url without a hostname carries the empty sequence)
HostOf(url) == Lower(url.host)

IsBlocked_exact(host) == \E i \in 1..Len(blocked) : blocked[i] = host

\* any(k in host for k in blocked)
IsBlocked(host) == \E i \in 1..Len(blocked) : Contains(host, blocked[i])

Pow2(n) == IF n <= 0 THEN 1 ELSE 2 ^ n

\* the bounds random.uniform draws the delay from
DelayRange(attempt) ==
    IF attempt = 0 THEN [lo |-> 1, hi |-> 3]
    ELSE [lo |-> Pow2(attempt), hi |-> Pow2(attempt + 1)]

\* One attempt is a sleep and then a session.get; script[attempt + 1] is what
\* that get meets: "ok" (a 2xx response), "status" (a response that
\* raise_for_status rejects) or "error" (a RequestException of the get).
Outcome == {"ok", "status", "error"}

SleepEv(attempt) ==
    [ev |-> "sleep", attempt |-> attempt,
     lo |-> DelayRange(attempt).lo, hi |-> DelayRange(attempt).hi, met |-> ""]

GetEv(attempt, o) == [ev |-> "get", attempt |-> attempt, lo |-> 0, hi |-> 0, met |-> o]

RECURSIVE AttemptLoop_noreturn(_, _, _, _)
AttemptLoop_noreturn(attempt, max_retries, script, log) ==
    IF attempt >= max_retries + 1 THEN [result |-> None, log |-> log]
    ELSE LET o    == script[attempt + 1]
             log2 == log \o <<SleepEv(attempt), GetEv(attempt, o)>>
         IN  IF o = "ok" /\ attempt = max_retries
                THEN [result |-> "response", log |-> log2]
             ELSE IF attempt = max_retries THEN [result |-> None, log |-> log2]
             ELSE AttemptLoop_noreturn(attempt + 1, max_retries, script, log2)

\* for attempt in range(max_retries+1): try ... except RequestException
RECURSIVE AttemptLoop(_, _, _, _)
AttemptLoop(attempt, max_retries, script, log) ==
    IF attempt >= max_retries + 1 THEN [result |-> None, log |-> log]
    ELSE LET o    == script[attempt + 1]
             log2 == log \o <<SleepEv(attempt), GetEv(attempt, o)>>
         IN  IF o = "ok" THEN [result |-> "response", log |-> log2]
             ELSE IF attempt = max_retries THEN [result |-> None, log |-> log2]
             ELSE AttemptLoop(attempt + 1, max_retries, script, log2)

make_request_with_retry(url, max_retries, script) ==
    IF IsBlocked(HostOf(url)) THEN [result |-> None, log |-> <<>>]
    ELSE AttemptLoop(0, max_retries, script, <<>>)

(***************************************************************************)
(* The fetch on its own: every host of Hosts, every max_retries up to      *)
(* MaxRetries, every script of outcomes.                                   *)
(***************************************************************************)
MaxRetries == 2

Hosts ==
    { <<"r","e","d","d","i","t",".","c","o","m">>,
      <<"o","l","d",".","R","e","d","d","i","t",".","c","o","m">>,
      <<"t","w","i","t","c","h",".","t","v">>,
      <<"x","t","w","i","t","t","e","r",".","i","o">>,
      <<"m",".","f","a","c","e","b","o","o","k",".","c","o","m">>,
      <<"r","e","d","i","t",".","c","o","m">>,
      <<"t","w","i","t",".","c","h">>,
      <<"e","x","a","m","p","l","e",".","c","o","m">>,
      <<>> }

Scripts(max_retries) == [1..(max_retries + 1) -> Outcome]

Pending == [result |-> "pending", log |-> <<>>]

Gets(log) == SelectSeq(log, LAMBDA e : e.ev = "get")
Sleeps(log) == SelectSeq(log, LAMBDA e : e.ev = "sleep")

\* scrape_category is not running
CategoryIdle ==
    /\ base_url = NoUrl /\ max_pages = 0 /\ cat_at = "idle"
    /\ cur = 1 /\ found = 0 /\ saved = 0 /\ pages_done = {}
    /\ stories = <<>> /\ story_i = 1 /\ pagelog = <<>> /\ calls = <<>>
    /\ handed = {} /\ again = {} /\ stop = "none" /\ crawl = <<>>

\* scrape_story is not running
StoryIdle ==
    /\ stitle = <<>> /\ surl = NoUrl /\ full_series = FALSE
    /\ at = "idle" /\ result = "running"
    /\ todo = <<>> /\ done = {} /\ part = 1 /\ pc = <<>>
    /\ allc = <<>> /\ series = NoUrl /\ title = <<>> /\ safe = <<>>
    /\ ch_links = <<>> /\ discovered = <<>> /\ cnum = 1
    /\ pp = <<>> /\ surl_links = <<>>
    /\ files = {}
    /\ fetched = <<>> /\ popped = <<>> /\ disc = <<>> /\ kinds = {}
    /\ renders = <<>> /\ written = <<>> /\ skipped = FALSE /\ chapOut = <<>>

InitFetch ==
    /\ \E h \in Hosts, m \in 0..MaxRetries :
         \E s \in Scripts(m) :
            rq = [url |-> [host |-> h, path |-> 0], max_retries |-> m, script |-> s]
    /\ rs = Pending
    /\ StoryIdle /\ site = {} /\ world = "any" /\ html = <<>>
    /\ CategoryIdle

Request ==
    /\ rs = Pending
    /\ rs' = make_request_with_retry(rq.url, rq.max_retries, rq.script)
    /\ UNCHANGED <<rq, storyVars, catVars>>

NextFetch == Request

SpecFetch == InitFetch /\ [][NextFetch]_vars

(***************************************************************************)
(* sanitize_filename                                                       *)
(***************************************************************************)
Forbidden == {"<", ">", ":", "\"", "/", "\\", "|", "?", "*"}

Whitespace == {" ", "\t", "\n"}

NameCap == 200

Untitled == <<"u","n","t","i","t","l","e","d">>

Min(a, b) == IF a <= b THEN a ELSE b

Reverse(s) == [i \in 1..Len(s) |-> s[Len(s) + 1 - i]]

RECURSIVE DropWs(_)
DropWs(s) ==
    IF s # <<>> /\ Head(s) \in Whitespace THEN DropWs(Tail(s)) ELSE s

\* str.strip()
Strip(s) == Reverse(DropWs(Reverse(DropWs(s))))

\* re.sub(r'\s+',' ',fn)
RECURSIVE CollapseWs(_)
CollapseWs(s) ==
    IF s = <<>> THEN <<>>
    ELSE IF Head(s) \in Whitespace THEN <<" ">> \o CollapseWs(DropWs(Tail(s)))
    ELSE <<Head(s)>> \o CollapseWs(Tail(s))

sanitize_filename(fn) ==
    LET a == SelectSeq(fn, LAMBDA c : c \notin Forbidden)
        b == Strip(CollapseWs(a))
        c == SubSeq(b, 1, Min(Len(b), NameCap))
    IN  IF c = <<>> THEN Untitled ELSE c

\* os.path.exists(os.path.join(self.downloads_folder, f"{safe}.pdf"))
PathExists_never(fs, name) == FALSE

PathExists(fs, name) == name \in fs

(***************************************************************************)
(* The chapter list of a series: the order key and the sort                *)
(***************************************************************************)
\* The number of a (Ch.|Pt.)<digits> token; 0 for every other character.
TokenNo(c) ==
    CASE c = "Ch.1" -> 1
      [] c = "Ch.2" -> 2
      [] c = "Pt.3" -> 3
      [] OTHER -> 0

StartsWith(s, pre) == Len(pre) <= Len(s) /\ SubSeq(s, 1, Len(pre)) = pre

\* re.search(r'(?:Ch\.?|Pt\.?)\s*(\d+)(?:-\d+)?', ch_t, re.I): the first token
FirstToken(ch_t) ==
    LET hits == SelectSeq(ch_t, LAMBDA c : TokenNo(c) > 0)
    IN  IF hits = <<>> THEN 0 ELSE TokenNo(hits[1])

OrderKey_equalOnly(ch_t, st) ==
    IF FirstToken(ch_t) > 0 THEN FirstToken(ch_t)
    ELSE IF Lower(Strip(ch_t)) = Lower(Strip(st)) THEN 1
    ELSE 999

\* lines 164-167
OrderKey(ch_t, st) ==
    IF FirstToken(ch_t) > 0 THEN FirstToken(ch_t)
    ELSE IF Strip(ch_t) = Strip(st) \/ StartsWith(Lower(ch_t), Lower(st)) THEN 1
    ELSE 999

RECURSIVE InsertByNum_unstable(_, _)
InsertByNum_unstable(sorted, x) ==
    IF sorted = <<>> THEN <<x>>
    ELSE IF Head(sorted).num < x.num
            THEN <<Head(sorted)>> \o InsertByNum_unstable(Tail(sorted), x)
    ELSE <<x>> \o sorted

\* x goes behind every element whose key is not above its own
RECURSIVE InsertByNum(_, _)
InsertByNum(sorted, x) ==
    IF sorted = <<>> THEN <<x>>
    ELSE IF Head(sorted).num <= x.num
            THEN <<Head(sorted)>> \o InsertByNum(Tail(sorted), x)
    ELSE <<x>> \o sorted

\* ch_links.sort(key=lambda x:x[2])
RECURSIVE SortByNum(_)
SortByNum(l) ==
    IF l = <<>> THEN <<>>
    ELSE InsertByNum(SortByNum(SubSeq(l, 1, Len(l) - 1)), l[Len(l)])

(***************************************************************************)
(* What the site serves. A page's content is what extract_story_content    *)
(* returns for it, drawn when the page is fetched.                         *)
(***************************************************************************)
StoryUrls == 1
WalkUrls == 3
MaxNext == 2
MaxParas == 1
MaxChapters == 2

DefaultRetries == 3

SiteHost == <<"e","x","a","m","p","l","e",".","c","o","m">>

Url(i) == [host |-> SiteHost, path |-> i]

UrlsUpTo(n) == {Url(i) : i \in 1..n}

SeriesUrl == Url(0)

PageTitles == {<<>>, <<"T", ":">>}

STitles == {<<"T">>}

Labels == {<<"T", " ", "Ch.2">>, <<"t">>, <<"x">>, <<"T", "x">>, <<" ", "T">>}

Names == {sanitize_filename(t) : t \in PageTitles \cup STitles}

\* the entries of a document: a paragraph of a page, a PART marker, a heading
Para(u, i) == [tag |-> "para", pre |-> "", n |-> i, src |-> u.path, label |-> <<>>]

PartMark(p) == [tag |-> "PART", pre |-> "", n |-> p, src |-> 0, label |-> <<>>]

Heading_bykey(num, ct, key) ==
    [tag |-> "Chapter", pre |-> IF key = 1 THEN "" ELSE "\n", n |-> key,
     src |-> 0, label |-> ct]

\* f"Chapter {cnum}: {ct}" if cnum==1 else f"\nChapter {cnum}: {ct}"
Heading(num, ct, key) ==
    [tag |-> "Chapter", pre |-> IF num = 1 THEN "" ELSE "\n", n |-> num,
     src |-> 0, label |-> ct]

\* In the plain world every page is a story of its own: it has a title and
\* MaxParas qualifying paragraphs, no next link and no series link, and
\* every request is answered.
Plain == world = "plain"

ParaSeqs(u) ==
    {[i \in 1..k |-> Para(u, i)] : k \in (IF Plain THEN {MaxParas} ELSE {0, MaxParas})}

NextSeqs == IF Plain THEN {<<>>} ELSE UNION {[1..k -> site] : k \in 0..MaxNext}

SeriesLinks == IF Plain THEN {NoUrl} ELSE {NoUrl, SeriesUrl}

DigitChar(n) == <<"0", "1", "2", "3", "4", "5", "6", "7", "8", "9">>[(n % 10) + 1]

\* a title no other page has
OwnTitle(u) == <<"S", DigitChar(u.path)>>

\* the titles extract_story_content can find on the page at u
TitlesAt(u) == IF Plain THEN {<<"T", ":">>, OwnTitle(u)} ELSE PageTitles

H1s == {[present |-> FALSE, text |-> <<>>]}
           \cup {[present |-> TRUE, text |-> t] : t \in PageTitles}

\* The chapter anchors of a series page: every sequence of labels; the i-th
\* anchor links to the i-th url of the site (a chapter's walk starts with an
\* empty visited set, so which url seeds it makes no difference to the walk).
ChapterUrl(i) == Url(((i - 1) % Cardinality(site)) + 1)

AnchorsOf(labels) == [i \in 1..Len(labels) |-> [ct |-> labels[i], curl |-> ChapterUrl(i)]]

\* the labels a series page is drawn with: one with a number, one without
SeriesLabels == {<<"T", " ", "Ch.2">>, <<"x">>}

AnchorSeqs ==
    {AnchorsOf(ls) : ls \in UNION {[1..k -> SeriesLabels] : k \in 0..MaxChapters}}

TagsHost ==
    <<"t","a","g","s",".","l","i","t","e","r","o","t","i","c","a",".","c","o","m">>

RedditHost == <<"r","e","d","d","i","t",".","c","o","m">>

\* what make_request_with_retry can return for a url of each host, over every
\* course the attempts can take
ResultsByHost ==
    [h \in Hosts \cup {SiteHost, TagsHost, RedditHost} |->
        {make_request_with_retry([host |-> h], DefaultRetries, sc).result :
            sc \in Scripts(DefaultRetries)}]

\* what make_request_with_retry(u) can return
FetchResults(u) ==
    IF Plain THEN ResultsByHost[u.host] \ {None} ELSE ResultsByHost[u.host]

(***************************************************************************)
(* The traversals' steps                                                   *)
(***************************************************************************)
InSeq(x, q) == \E i \in 1..Len(q) : q[i] = x

AddDone_forgets(d, u) == d

\* done.add(u)
AddDone(d, u) == d \cup {u}

PopRest_peek(q) == q

\* todo.pop(0) leaves the rest of the queue
PopRest(q) == Tail(q)

Continue_break(rest) == <<>>

\* if not r: continue -- a failed fetch ends the turn, and the loop goes on with
\* the urls that are left in the queue
Continue(rest) == rest

Enqueue_notInDoneOnly(q, d, ns) == q \o SelectSeq(ns, LAMBDA n : n \notin d)

\* for n in nexts: if n not in done and n not in todo: todo.append(n)
RECURSIVE Enqueue(_, _, _)
Enqueue(q, d, ns) ==
    IF ns = <<>> THEN q
    ELSE Enqueue(IF Head(ns) \notin d /\ ~InSeq(Head(ns), q)
                    THEN Append(q, Head(ns)) ELSE q,
                 d, Tail(ns))

PartAfter_always(p, fetchedOk) == p + 1

\* part+=1 ends the loop body; the continue of a failed fetch skips it
PartAfter(p, fetchedOk) == IF fetchedOk THEN p + 1 ELSE p

ReturnsAt_never(ser) == FALSE

\* if ser: return ser
ReturnsAt(ser) == ser # NoUrl

WithPage_marksAll(content, p, paras) ==
    IF paras = <<>> THEN content ELSE content \o <<PartMark(p)>> \o paras

\* if pp: (if part>1: append PART marker); extend
WithPage(content, p, paras) ==
    IF paras = <<>> THEN content
    ELSE content \o (IF p > 1 THEN <<PartMark(p)>> ELSE <<>>) \o paras

ZeroFetched == [u \in site |-> 0]

\* one popped url: whether its fetch went through, the page index it was given,
\* the series link its page had, whether its page linked back to a visited url
PopEntry(u, ok, p, ser, back) ==
    [u |-> u, ok |-> ok, part |-> p, ser |-> ser, back |-> back]

LinksBack(nexts, d) == \E i \in 1..Len(nexts) : nexts[i] \in d

StartWalk(seed) ==
    /\ todo' = <<seed>> /\ done' = {} /\ part' = 1 /\ pc' = <<>>
    /\ fetched' = ZeroFetched /\ popped' = <<>> /\ disc' = <<seed>>

Discovered(q2, rest) == disc \o SubSeq(q2, Len(rest) + 1, Len(q2))

(***************************************************************************)
(* scrape_story                                                            *)
(***************************************************************************)
travVars == <<todo, done, part, pc, fetched, popped, disc>>

Return(r) == at' = "done" /\ result' = r

\* lines 125-133: the style create_pdf gives an entry. An entry's text begins
\* with its prefix, so startswith("Chapter ") and startswith("PART ") hold only
\* of a marker without prefix; everything else is a body paragraph.
StyleOf(item) ==
    IF item.tag = "Chapter" /\ item.pre = "" THEN "Heading1"
    ELSE IF item.tag = "PART" /\ item.pre = "" THEN "Heading2"
    ELSE "Normal"

\* the blocks create_pdf builds from a document: the title block, then one block
\* per entry (the spacers left out)
Blocks(t, paras) ==
    <<[style |-> "Title", n |-> 0]>>
        \o [i \in 1..Len(paras) |-> [style |-> StyleOf(paras[i]), n |-> paras[i].n]]

\* create_pdf(title, paras, filename): the call and whether doc.build went through
Rendered(t, paras, filename, ok) ==
    [title |-> t, filename |-> filename, ok |-> ok, items |-> Len(paras),
     nparas |-> Len(SelectSeq(paras, LAMBDA x : x.tag = "para"))]

\* if allc and self.create_pdf(title, allc, safe): the document is rendered when
\* it has content, and the file is there when doc.build went through
Render(doc, ok) ==
    /\ renders' = Append(renders, Rendered(title, doc, safe, ok))
    /\ IF ok THEN files' = files \cup {safe} /\ written' = doc
             ELSE UNCHANGED <<files, written>>

\* the series branch is left for single-story mode: its locals are dead, every
\* one of them is assigned again before it is read
LeaveSeriesMode ==
    /\ at' = "single"
    /\ todo' = <<>> /\ done' = {} /\ part' = 1 /\ pc' = <<>>
    /\ allc' = <<>> /\ ch_links' = <<>> /\ discovered' = <<>> /\ cnum' = 1
    /\ title' = <<>> /\ safe' = <<>>
    /\ fetched' = ZeroFetched /\ popped' = <<>> /\ disc' = <<>>
    /\ chapOut' = <<>>
    /\ UNCHANGED <<result, skipped>>

\* lines 139-142: with full_series the series is looked for first
StoryStart ==
    /\ at = "start"
    /\ IF full_series
          THEN at' = "find" /\ StartWalk(surl)
          ELSE at' = "single" /\ UNCHANGED travVars
    /\ UNCHANGED <<fetchVars, catVars, argVars, result, docVars, files, kinds, renders,
                   written, skipped, chapOut>>

\* find_series_link_from_all_pages: one turn of its loop
FindIter ==
    /\ at = "find" /\ todo # <<>>
    /\ LET u    == Head(todo)
           rest == PopRest(todo)
       IN  IF u \in done
              THEN /\ todo' = rest
                   /\ UNCHANGED <<at, done, series, fetched, popped, disc, kinds>>
              ELSE /\ done' = AddDone(done, u)
                   /\ fetched' = [fetched EXCEPT ![u] = @ + 1]
                   /\ kinds' = kinds \cup {"find"}
                   /\ \E r \in FetchResults(u) :
                        IF r = None
                           THEN /\ todo' = Continue(rest)
                                /\ popped' = Append(popped, PopEntry(u, FALSE, 0, NoUrl, FALSE))
                                /\ UNCHANGED <<at, series, disc>>
                           ELSE \E nexts \in NextSeqs, ser \in SeriesLinks :
                                  /\ popped' = Append(popped, PopEntry(u, TRUE, 0, ser, LinksBack(nexts, done)))
                                  /\ IF ReturnsAt(ser)
                                        THEN /\ series' = ser
                                             /\ at' = "series"
                                             /\ todo' = rest
                                             /\ UNCHANGED disc
                                        ELSE /\ todo' = Enqueue(rest, done', nexts)
                                             /\ disc' = Discovered(todo', rest)
                                             /\ UNCHANGED <<at, series>>
    /\ UNCHANGED <<fetchVars, catVars, argVars, result, part, pc, allc, title, safe,
                   ch_links, discovered, cnum, pp, surl_links, files, renders, written,
                   skipped, chapOut>>

\* the queue is empty: return None, and scrape_story goes on in single-story mode
FindExit ==
    /\ at = "find" /\ todo = <<>>
    /\ series' = NoUrl
    /\ at' = "single"
    /\ UNCHANGED <<fetchVars, catVars, argVars, result, walkVars, allc, title, safe,
                   ch_links, discovered, cnum, pp, surl_links, files, histVars>>

\* lines 155-169: the chapter list of the series page, key by key
ChapterRefs(anchors, st) ==
    [i \in 1..Len(anchors) |->
        [ct |-> anchors[i].ct, curl |-> anchors[i].curl,
         num |-> OrderKey(anchors[i].ct, st)]]

\* lines 143-175: the series page, the existence check, the sorted chapters
SeriesPage ==
    /\ at = "series"
    /\ kinds' = kinds \cup {"series"}
    /\ \E r \in FetchResults(series) :
         IF r = None
            THEN LeaveSeriesMode
            ELSE \E h1 \in H1s, anchors \in AnchorSeqs :
                   LET st  == IF h1.present THEN h1.text ELSE stitle
                       sf  == sanitize_filename(st)
                       cl  == SortByNum(ChapterRefs(anchors, st))
                   IN  IF PathExists(files, sf)
                          THEN /\ Return("True")
                               /\ skipped' = TRUE
                               /\ title' = st /\ safe' = sf
                               /\ UNCHANGED <<travVars, allc, ch_links, discovered, cnum,
                                              chapOut>>
                          ELSE IF cl = <<>>
                                  THEN LeaveSeriesMode
                                  ELSE /\ at' = "chapter"
                                       /\ title' = st /\ safe' = sf
                                       /\ discovered' = ChapterRefs(anchors, st)
                                       /\ ch_links' = cl
                                       /\ allc' = <<>>
                                       /\ cnum' = 1
                                       /\ StartWalk(cl[1].curl)
                                       /\ UNCHANGED <<result, skipped, chapOut>>
    /\ UNCHANGED <<fetchVars, catVars, argVars, series, pp, surl_links, files, renders, written>>

\* lines 176-189: one turn of a chapter's page loop
ChapterIter ==
    /\ at = "chapter" /\ todo # <<>>
    /\ LET cu   == Head(todo)
           rest == PopRest(todo)
       IN  IF cu \in done
              THEN /\ todo' = rest
                   /\ UNCHANGED <<done, part, pc, fetched, popped, disc, kinds>>
              ELSE /\ done' = AddDone(done, cu)
                   /\ fetched' = [fetched EXCEPT ![cu] = @ + 1]
                   /\ kinds' = kinds \cup {"chapter"}
                   /\ \E r \in FetchResults(cu) :
                        /\ part' = PartAfter(part, r # None)
                        /\ IF r = None
                              THEN /\ todo' = Continue(rest)
                                   /\ popped' = Append(popped,
                                         PopEntry(cu, FALSE, part, NoUrl, FALSE))
                                   /\ UNCHANGED <<pc, disc>>
                              ELSE \E paras \in ParaSeqs(cu), nexts \in NextSeqs :
                                     /\ popped' = Append(popped,
                                           PopEntry(cu, TRUE, part, NoUrl, LinksBack(nexts, done)))
                                     /\ pc' = WithPage(pc, part, paras)
                                     /\ todo' = Enqueue(rest, done', nexts)
                                     /\ disc' = Discovered(todo', rest)
    /\ UNCHANGED <<fetchVars, catVars, argVars, at, result, docVars, files, renders, written,
                   skipped, chapOut>>

\* lines 190-193: the chapter's heading and content join the document; after the
\* last chapter the document is rendered
ChapterEnd ==
    /\ at = "chapter" /\ todo = <<>>
    /\ LET ref == ch_links[cnum]
           doc == allc \o <<Heading(cnum, ref.ct, ref.num)>> \o pc
       IN  IF cnum < Len(ch_links)
              THEN /\ allc' = doc
                   /\ cnum' = cnum + 1
                   /\ chapOut' = Append(chapOut, [content |-> pc, pages |-> part - 1])
                   /\ StartWalk(ch_links[cnum + 1].curl)
                   /\ UNCHANGED <<at, result, title, safe, ch_links, discovered, files, renders,
                                  written, skipped>>
              ELSE IF doc = <<>>
                      THEN LeaveSeriesMode /\ UNCHANGED <<files, renders, written>>
                      ELSE \E ok \in BOOLEAN :
                             /\ Render(doc, ok)
                             /\ IF ok
                                   THEN /\ Return("True")
                                        /\ allc' = doc
                                        /\ cnum' = cnum + 1
                                        /\ chapOut' = Append(chapOut, [content |-> pc, pages |-> part - 1])
                                        /\ UNCHANGED <<travVars, title, safe, ch_links, discovered,
                                                       skipped>>
                                   ELSE LeaveSeriesMode
    /\ UNCHANGED <<fetchVars, catVars, argVars, series, pp, surl_links, kinds>>

\* lines 194-203: the story page, the existence check, the start of the page loop
SinglePage ==
    /\ at = "single"
    /\ kinds' = kinds \cup {"single"}
    /\ \E r \in FetchResults(surl) :
         IF r = None
            THEN /\ Return("False")
                 /\ UNCHANGED <<travVars, allc, title, safe, pp, surl_links, skipped>>
            ELSE \E t \in TitlesAt(surl), paras \in ParaSeqs(surl), nexts \in NextSeqs :
                   LET ft == IF t # <<>> THEN t ELSE stitle
                       sf == sanitize_filename(ft)
                   IN  /\ title' = ft
                       /\ safe' = sf
                       /\ pp' = paras
                       /\ surl_links' = nexts
                       /\ IF PathExists(files, sf)
                             THEN /\ Return("True")
                                  /\ skipped' = TRUE
                                  /\ UNCHANGED <<travVars, allc>>
                             ELSE /\ at' = "walk"
                                  /\ allc' = <<>>
                                  /\ StartWalk(surl)
                                  /\ UNCHANGED <<result, skipped>>
    /\ UNCHANGED <<fetchVars, catVars, argVars, series, ch_links, discovered, cnum, files, renders,
                   written, chapOut>>

\* lines 204-219: one turn of the single story's page loop
SingleIter ==
    /\ at = "walk" /\ todo # <<>>
    /\ LET cu   == Head(todo)
           rest == PopRest(todo)
       IN  IF cu \in done
              THEN /\ todo' = rest
                   /\ UNCHANGED <<done, part, allc, fetched, popped, disc, kinds>>
              ELSE /\ done' = AddDone(done, cu)
                   /\ IF cu = surl
                         THEN /\ allc' = WithPage(allc, part, pp)
                              /\ todo' = Enqueue(rest, done', surl_links)
                              /\ disc' = Discovered(todo', rest)
                              /\ part' = PartAfter(part, TRUE)
                              /\ popped' = Append(popped,
                                    PopEntry(cu, TRUE, part, NoUrl, LinksBack(surl_links, done)))
                              /\ UNCHANGED <<fetched, kinds>>
                         ELSE /\ fetched' = [fetched EXCEPT ![cu] = @ + 1]
                              /\ kinds' = kinds \cup {"walk"}
                              /\ \E r \in FetchResults(cu) :
                                   /\ part' = PartAfter(part, r # None)
                                   /\ IF r = None
                                         THEN /\ todo' = Continue(rest)
                                              /\ popped' = Append(popped,
                                                    PopEntry(cu, FALSE, part, NoUrl, FALSE))
                                              /\ UNCHANGED <<allc, disc>>
                                         ELSE \E paras \in ParaSeqs(cu), nexts \in NextSeqs :
                                                /\ popped' = Append(popped,
                                                      PopEntry(cu, TRUE, part, NoUrl, LinksBack(nexts, done)))
                                                /\ allc' = WithPage(allc, part, paras)
                                                /\ todo' = Enqueue(rest, done', nexts)
                                                /\ disc' = Discovered(todo', rest)
    /\ UNCHANGED <<fetchVars, catVars, argVars, at, result, pc, series, title, safe, ch_links, discovered,
                   cnum, pp, surl_links, files, renders, written, skipped, chapOut>>

\* lines 220-223: the queue is empty; a document with content is rendered
SingleExit ==
    /\ at = "walk" /\ todo = <<>>
    /\ IF allc = <<>>
          THEN /\ Return("False")
               /\ UNCHANGED <<files, renders, written>>
          ELSE \E ok \in BOOLEAN :
                 /\ Render(allc, ok)
                 /\ Return(IF ok THEN "True" ELSE "False")
    /\ UNCHANGED <<fetchVars, catVars, argVars, walkVars, docVars, fetched, popped, disc,
                   kinds, skipped, chapOut>>

\* neither make_request_with_retry on its own nor scrape_category is running
NoRequest ==
    /\ rq = [url |-> NoUrl, max_retries |-> 0, script |-> <<>>]
    /\ rs = Pending
    /\ CategoryIdle
    /\ world = "any" /\ html = <<>>

\* scrape_story(stitle, surl, full_series) is called with some files on disk
Init ==
    /\ NoRequest
    /\ stitle \in STitles
    /\ surl = Url(1)
    /\ full_series \in BOOLEAN
    /\ at = "start" /\ result = "running"
    /\ todo = <<>> /\ done = {} /\ part = 1 /\ pc = <<>>
    /\ allc = <<>> /\ series = NoUrl /\ title = <<>> /\ safe = <<>>
    /\ ch_links = <<>> /\ discovered = <<>> /\ cnum = 1
    /\ pp = <<>> /\ surl_links = <<>>
    /\ files \in SUBSET Names
    /\ site = UrlsUpTo(StoryUrls)
    /\ fetched = ZeroFetched /\ popped = <<>> /\ disc = <<>> /\ kinds = {}
    /\ renders = <<>> /\ written = <<>> /\ skipped = FALSE /\ chapOut = <<>>

Next ==
    \/ StoryStart
    \/ FindIter
    \/ FindExit
    \/ SeriesPage
    \/ ChapterIter
    \/ ChapterEnd
    \/ SinglePage
    \/ SingleIter
    \/ SingleExit

Spec == Init /\ [][Next]_vars

(***************************************************************************)
(* One traversal on its own, from the state its loop starts in: the series *)
(* discovery walk, the page walk of a chapter, the page walk of a single   *)
(* story.                                                                  *)
(***************************************************************************)
InitWalk ==
    /\ NoRequest
    /\ stitle \in STitles
    /\ surl = Url(1)
    /\ result = "running"
    /\ done = {} /\ part = 1 /\ pc = <<>> /\ allc = <<>>
    /\ files = {}
    /\ site = UrlsUpTo(WalkUrls)
    /\ fetched = ZeroFetched /\ popped = <<>>
    /\ renders = <<>> /\ written = <<>> /\ skipped = FALSE /\ chapOut = <<>>
    /\ cnum = 1
    /\ \/ /\ at = "find" /\ full_series = TRUE
          /\ todo = <<surl>> /\ disc = <<surl>>
          /\ series = NoUrl /\ title = <<>> /\ safe = <<>> /\ ch_links = <<>>
          /\ discovered = <<>>
          /\ pp = <<>> /\ surl_links = <<>> /\ kinds = {}
       \/ /\ at = "chapter" /\ full_series = TRUE
          /\ series = SeriesUrl /\ title = stitle /\ safe = sanitize_filename(stitle)
          /\ \E u \in site :
               /\ ch_links = ChapterRefs(<<[ct |-> stitle, curl |-> u]>>, stitle)
               /\ discovered = ch_links
               /\ todo = <<u>> /\ disc = <<u>>
          /\ pp = <<>> /\ surl_links = <<>> /\ kinds = {"find", "series"}
       \/ /\ at = "walk" /\ full_series = FALSE
          /\ todo = <<surl>> /\ disc = <<surl>>
          /\ series = NoUrl /\ title = stitle /\ safe = sanitize_filename(stitle)
          /\ ch_links = <<>> /\ discovered = <<>>
          /\ pp \in ParaSeqs(surl) /\ surl_links \in NextSeqs /\ kinds = {"single"}

NextWalk ==
    \/ FindIter
    \/ FindExit
    \/ ChapterIter
    \/ SingleIter

SpecWalk == InitWalk /\ [][NextWalk]_vars

\* the interpreter runs the next statement: a loop that can take a turn takes it
LiveWalk == SpecWalk /\ WF_vars(NextWalk)

(***************************************************************************)
(* The sort of the chapter list on its own: every list of up to SortLen    *)
(* chapter refs, keyed by OrderKey against the story's title.              *)
(***************************************************************************)
SortLen == 4

LabelSeqs(n) == UNION {[1..k -> Labels] : k \in 0..n}

InitSort ==
    /\ NoRequest
    /\ stitle \in STitles /\ surl = NoUrl /\ full_series = TRUE
    /\ site = UrlsUpTo(SortLen)
    /\ at = "anchors" /\ result = "running"
    /\ todo = <<>> /\ done = {} /\ part = 1 /\ pc = <<>>
    /\ allc = <<>> /\ series = SeriesUrl
    /\ title = stitle /\ safe = sanitize_filename(stitle)
    /\ \E ls \in LabelSeqs(SortLen) : discovered = AnchorsOf(ls)
    /\ ch_links = <<>>
    /\ cnum = 1 /\ pp = <<>> /\ surl_links = <<>>
    /\ files = {}
    /\ fetched = ZeroFetched /\ popped = <<>> /\ disc = <<>> /\ kinds = {"find", "series"}
    /\ renders = <<>> /\ written = <<>> /\ skipped = FALSE /\ chapOut = <<>>

\* lines 155-169: every anchor of the series page gets its order key
KeyChapters ==
    /\ at = "anchors"
    /\ discovered' = ChapterRefs(discovered, title)
    /\ ch_links' = discovered'
    /\ at' = "sort"
    /\ UNCHANGED <<fetchVars, catVars, argVars, result, walkVars, allc, series, title, safe,
                   cnum, pp, surl_links, files, histVars>>

\* line 171: ch_links.sort(key=lambda x:x[2])
SortChapters ==
    /\ at = "sort"
    /\ ch_links' = SortByNum(ch_links)
    /\ at' = "sorted"
    /\ UNCHANGED <<fetchVars, catVars, argVars, result, walkVars, allc, series, title, safe,
                   discovered, cnum, pp, surl_links, files, histVars>>

NextSort == KeyChapters \/ SortChapters

SpecSort == InitSort /\ [][NextSort]_vars

(***************************************************************************)
(* scrape_category. A listing url is [host, path, query], the query a      *)
(* sequence of parameters [k, v, digits]; digits says that v is a number.  *)
(* scrape_story is modelled by the actions above; here a call of it is one *)
(* step, and only what it returns reaches the listing loop.                *)
(***************************************************************************)
MaxPages == 2
MaxLinks == 2
CatStories == 2

PageParam(n) == [k |-> "page", v |-> n, digits |-> TRUE]

CatParam == [k |-> "cat", v |-> 1, digits |-> TRUE]

Listing(h, q) == [host |-> h, path |-> 0, query |-> q]

\* the empty string as base url
EmptyUrl == [host |-> <<>>, path |-> -1, query |-> <<>>]

BaseUrls ==
    { EmptyUrl,
      Listing(SiteHost, <<>>),
      Listing(SiteHost, <<CatParam>>),
      Listing(SiteHost, <<PageParam(3)>>),
      Listing(SiteHost, <<CatParam, PageParam(4)>>),
      Listing(SiteHost, <<[k |-> "page", v |-> 0, digits |-> FALSE]>>),
      Listing(TagsHost, <<CatParam>>),
      Listing(RedditHost, <<>>) }

\* re.sub(r'page=\d+', f'page={cur+1}', self.base_url)
SubPage(q, n) ==
    [i \in 1..Len(q) |-> IF q[i].k = "page" /\ q[i].digits THEN PageParam(n) ELSE q[i]]

\* get_next_page_url(None, cur): without a soup only the query is rewritten
get_next_page_url(base, c) ==
    LET nxt == IF base.query # <<>>
                  THEN IF \E i \in 1..Len(base.query) : base.query[i].k = "page"
                          THEN [base EXCEPT !.query = SubPage(base.query, c + 1)]
                          ELSE [base EXCEPT !.query = Append(base.query, PageParam(c + 1))]
                  ELSE [base EXCEPT !.query = <<PageParam(c + 1)>>]
    IN  IF base.host = TagsHost
           THEN [base EXCEPT !.query = <<PageParam(c + 1)>>]
           ELSE nxt

\* page=self.base_url if cur==1 else self.get_next_page_url(None,cur)
PageFor(base, c) == IF c = 1 THEN base ELSE get_next_page_url(base, c)

AlreadyVisited_never(page, d) == FALSE

\* page in done
AlreadyVisited(page, d) == page \in d

\* lines 60-64: the first link to each url is kept
RECURSIVE Uniq_keepall(_, _)
Uniq_keepall(links, seen) == links

RECURSIVE Uniq(_, _)
Uniq(links, seen) ==
    IF links = <<>> THEN <<>>
    ELSE IF Head(links).u \in seen THEN Uniq(Tail(links), seen)
    ELSE <<Head(links)>> \o Uniq(Tail(links), seen \cup {Head(links).u})

\* extract_story_links(soup): the anchors of the first selector that finds any,
\* one link per url
extract_story_links(anchors) == Uniq(anchors, {})

Link(u) == [t |-> <<"T">>, u |-> u]

RawLinkSeqs == UNION {[1..k -> {Link(u) : u \in site}] : k \in 0..MaxLinks}

\* raw: the anchors the page had; n: the links extract_story_links returned
PageEntry(page, ok, raw, n) == [page |-> page, ok |-> ok, raw |-> raw, n |-> n]

StopAt(why) == cat_at' = "end" /\ stop' = why

\* lines 246-256: one listing page; if not page or page in done: break
CategoryPage ==
    /\ cat_at = "loop" /\ cur <= max_pages
    /\ LET page == PageFor(base_url, cur)
       IN  IF page = EmptyUrl \/ AlreadyVisited(page, pages_done)
              THEN /\ StopAt(IF page = EmptyUrl THEN "nourl" ELSE "visited")
                   /\ UNCHANGED <<pages_done, pagelog, stories, story_i, found, calls>>
              ELSE /\ pages_done' = pages_done \cup {page}
                   /\ \E r \in FetchResults(page) :
                        IF r = None
                           THEN /\ StopAt("fetch")
                                /\ pagelog' = Append(pagelog, PageEntry(page, FALSE, 0, 0))
                                /\ UNCHANGED <<stories, story_i, found, calls>>
                           ELSE \E anchors \in RawLinkSeqs :
                                  LET ls == extract_story_links(anchors)
                                  IN  /\ pagelog' = Append(pagelog, PageEntry(page, TRUE, Len(anchors), Len(ls)))
                                      /\ stories' = ls
                                      /\ IF ls = <<>>
                                            THEN /\ StopAt("empty")
                                                 /\ UNCHANGED <<story_i, found, calls>>
                                            ELSE /\ found' = found + Len(ls)
                                                 /\ story_i' = 1
                                                 /\ calls' = <<>>
                                                 /\ cat_at' = "stories"
                                                 /\ UNCHANGED stop
    /\ UNCHANGED <<fetchVars, storyVars, base_url, max_pages, cur, saved, handed, again, crawl>>

\* the ways out of scrape_story, each of them a return: the document saved
\* (193, 221), the file already there (152, 202), the story page not fetched
\* (196), no content or the render failed (223)
StoryOutcomes ==
    { [ok |-> TRUE,  why |-> "saved"],
      [ok |-> TRUE,  why |-> "exists"],
      [ok |-> FALSE, why |-> "fetch"],
      [ok |-> FALSE, why |-> "nocontent"],
      [ok |-> FALSE, why |-> "render"] }

StoryLoopGoesOn_untilFailure(ok) == ok

\* lines 257-259: the for loop has no break, the result only feeds saved
StoryLoopGoesOn(ok) == TRUE

\* lines 257-260: scrape_story for the next link of the page; cur+=1 after the last
\* lines 258-260: what follows a call of scrape_story that returned ok
StoryReturned(ok) ==
    /\ calls' = Append(calls, [u |-> stories[story_i].u, ok |-> ok])
    /\ handed' = handed \cup {stories[story_i].u}
    /\ again' = IF stories[story_i].u \in handed
                    THEN again \cup {stories[story_i].u} ELSE again
    /\ saved' = IF ok THEN saved + 1 ELSE saved
    /\ IF ~StoryLoopGoesOn(ok)
          THEN StopAt("story") /\ UNCHANGED <<story_i, cur>>
          ELSE /\ IF story_i < Len(stories)
                     THEN story_i' = story_i + 1 /\ cat_at' = "stories" /\ UNCHANGED cur
                     ELSE story_i' = 1 /\ cur' = cur + 1 /\ cat_at' = "loop"
               /\ UNCHANGED stop
    /\ UNCHANGED <<base_url, max_pages, found, pages_done, stories, pagelog>>

CategoryStory ==
    /\ cat_at = "stories"
    /\ \E o \in StoryOutcomes : StoryReturned(o.ok)
    /\ UNCHANGED <<fetchVars, storyVars, crawl>>

\* line 246: cur has passed max_pages
CategoryEnd ==
    /\ cat_at = "loop" /\ cur > max_pages
    /\ StopAt("cap")
    /\ UNCHANGED <<fetchVars, storyVars, base_url, max_pages, cur, found, saved,
                   pages_done, stories, story_i, pagelog, calls, handed, again, crawl>>

InitCategory ==
    /\ rq = [url |-> NoUrl, max_retries |-> 0, script |-> <<>>]
    /\ rs = Pending
    /\ StoryIdle /\ site = UrlsUpTo(CatStories) /\ world = "any" /\ html = <<>>
    /\ base_url \in BaseUrls
    /\ max_pages \in 0..MaxPages
    /\ cat_at = "loop"
    /\ cur = 1 /\ found = 0 /\ saved = 0 /\ pages_done = {}
    /\ stories = <<>> /\ story_i = 1 /\ pagelog = <<>> /\ calls = <<>>
    /\ handed = {} /\ again = {} /\ stop = "none" /\ crawl = <<>>

NextCategory ==
    \/ CategoryPage
    \/ CategoryStory
    \/ CategoryEnd

SpecCategory == InitCategory /\ [][NextCategory]_vars

(***************************************************************************)
(* The crawl of a plain site, end to end: scrape_category with scrape_story *)
(* run step by step for every link. No page of a plain site has a series   *)
(* link, so find_series_link_from_all_pages returns None and the series    *)
(* branch of scrape_story (lines 142-193) is not entered.                  *)
(***************************************************************************)
CrawlPages == 1

\* line 259: self.scrape_story(st,surl,full_series=True)
CrawlCall ==
    /\ cat_at = "stories" /\ at = "idle"
    /\ stitle' = stories[story_i].t
    /\ surl' = stories[story_i].u
    /\ full_series' = TRUE
    /\ at' = "start"
    /\ cat_at' = "call"
    /\ UNCHANGED <<fetchVars, site, world, html, result, walkVars, docVars, files, histVars,
                   base_url, max_pages, cur, found, saved, pages_done, stories, story_i,
                   pagelog, calls, handed, again, stop, crawl>>

\* what a finished call leaves behind: the title, whether the artifact was there,
\* how often create_pdf was called and whether the document was the page's
\* paragraphs and nothing else
CallEntry ==
    [u |-> surl, ok |-> result = "True", skipped |-> skipped, title |-> title,
     nrenders |-> Len(renders), bare |-> allc = pp]

\* line 259: scrape_story has returned; its locals are gone
CrawlReturn ==
    /\ cat_at = "call" /\ at = "done"
    /\ StoryReturned(result = "True")
    /\ crawl' = Append(crawl, CallEntry)
    /\ stitle' = <<>> /\ surl' = NoUrl /\ full_series' = FALSE
    /\ at' = "idle" /\ result' = "running"
    /\ todo' = <<>> /\ done' = {} /\ part' = 1 /\ pc' = <<>>
    /\ allc' = <<>> /\ series' = NoUrl /\ title' = <<>> /\ safe' = <<>>
    /\ ch_links' = <<>> /\ discovered' = <<>> /\ cnum' = 1
    /\ pp' = <<>> /\ surl_links' = <<>>
    /\ fetched' = <<>> /\ popped' = <<>> /\ disc' = <<>> /\ kinds' = {}
    /\ renders' = <<>> /\ written' = <<>> /\ skipped' = FALSE /\ chapOut' = <<>>
    /\ UNCHANGED <<fetchVars, site, world, html, files>>

InitCrawl ==
    /\ rq = [url |-> NoUrl, max_retries |-> 0, script |-> <<>>]
    /\ rs = Pending
    /\ StoryIdle /\ site = UrlsUpTo(CatStories) /\ world = "plain" /\ html = <<>>
    /\ base_url = Listing(SiteHost, <<>>)
    /\ max_pages \in 1..CrawlPages
    /\ cat_at = "loop"
    /\ cur = 1 /\ found = 0 /\ saved = 0 /\ pages_done = {}
    /\ stories = <<>> /\ story_i = 1 /\ pagelog = <<>> /\ calls = <<>>
    /\ handed = {} /\ again = {} /\ stop = "none" /\ crawl = <<>>

NextCrawl ==
    \/ CategoryPage
    \/ CrawlCall
    \/ StoryStart
    \/ FindIter
    \/ FindExit
    \/ SinglePage
    \/ SingleIter
    \/ SingleExit
    \/ CrawlReturn
    \/ CategoryEnd

SpecCrawl == InitCrawl /\ [][NextCrawl]_vars

(***************************************************************************)
(* extract_story_content, the paragraphs. A page is the sequence of its p  *)
(* elements in document order; an element is [id, len, link, within]: its  *)
(* place, the length of its stripped text, whether it holds an anchor to   *)
(* /s/..., and the containers of body_sels it lies within. The fourteen    *)
(* selectors are two container selectors and the closing 'p', which finds  *)
(* every element.                                                          *)
(***************************************************************************)
MaxElems == 3

body_sels == <<"story", "content", "p">>

TextLens == {10, 20, 21}

Elems ==
    {[len |-> n, link |-> l, within |-> w] :
        n \in TextLens, l \in BOOLEAN, w \in SUBSET {"story", "content"}}

\* the page whose i-th element is f[i]
PageOf(f) ==
    [i \in 1..Len(f) |->
        [id |-> i, len |-> f[i].len, link |-> f[i].link, within |-> f[i].within]]

\* soup.select(s)
Select(page, sel) ==
    SelectSeq(page, LAMBDA e : sel = "p" \/ sel \in e.within)

\* text and len(text)>10 and not any(href.lower().startswith('/s/') ...)
Qualifies(e) == e.len > 10 /\ ~e.link

Enough_any(val) == Len(val) > 0

\* if val and len(val)>1
Enough(val) == Len(val) > 1

\* lines 79-87: the selectors in order, from the s-th on
RECURSIVE BodyFrom(_, _)
BodyFrom(page, s) ==
    IF s > Len(body_sels) THEN <<>>
    ELSE LET val == SelectSeq(Select(page, body_sels[s]), Qualifies)
         IN  IF Enough(val) THEN val ELSE BodyFrom(page, s + 1)

\* lines 78-90
extract_paras(page) ==
    LET paras == BodyFrom(page, 1)
    IN  IF paras = <<>> THEN SelectSeq(page, LAMBDA e : e.len > 20) ELSE paras

InitExtract ==
    /\ rq = [url |-> NoUrl, max_retries |-> 0, script |-> <<>>]
    /\ rs = Pending
    /\ CategoryIdle
    /\ StoryIdle /\ site = {} /\ world = "any"
    /\ \E k \in 0..MaxElems : \E f \in [1..k -> Elems] : html = PageOf(f)

ExtractParas ==
    /\ at = "idle"
    /\ pp' = extract_paras(html)
    /\ at' = "extracted"
    /\ UNCHANGED <<fetchVars, catVars, argVars, result, walkVars, allc, series, title, safe,
                   ch_links, discovered, cnum, surl_links, files, histVars>>

NextExtract == ExtractParas

SpecExtract == InitExtract /\ [][NextExtract]_vars

(***************************************************************************)
(* Properties                                                              *)
(***************************************************************************)
InTraversal == at \in {"find", "chapter", "walk"}

\* the running page traversal's content: pc in a chapter, allc in a single story
Content == IF at = "chapter" THEN pc ELSE allc

RECURSIVE SumOver(_, _)
SumOver(f, S) ==
    IF S = {} THEN 0
    ELSE LET x == CHOOSE y \in S : TRUE IN f[x] + SumOver(f, S \ {x})

\* how many of the first k popped urls were fetched
FetchedBefore(k) == Cardinality({j \in 1..(k - 1) : popped[j].ok})

\* C1: within one traversal no url is requested more than once, whatever the
\* next links are (cycles included)
C1_NoUrlFetchedTwice ==
    /\ \A u \in DOMAIN fetched : fetched[u] <= 1
    /\ \A i, j \in 1..Len(popped) : popped[i].u = popped[j].u => i = j

\* a traversal that ended after it met a link back to a visited page and popped
\* every url of the site
C1_Witness ==
    /\ at = "chapter" /\ todo = <<>>
    /\ Len(popped) = Cardinality(site)
    /\ \E k \in 2..Len(popped) : popped[k].back

WalkEnded == todo = <<>> \/ at \in {"series", "single"}

\* C2: every traversal ends, whatever the next links are and whichever fetches fail
C2_TraversalTerminates == <>WalkEnded

\* a traversal that ended with a failed fetch and a link back behind it
C2_Witness ==
    /\ at = "walk" /\ todo = <<>>
    /\ \E k \in 1..Len(popped) : ~popped[k].ok
    /\ \E k \in 1..Len(popped) : popped[k].back

Requested == rs # Pending

\* the lowercased host of the requested url holds a word of the blocklist
HostHasBlockedWord ==
    \E w \in {blocked[i] : i \in 1..Len(blocked)} :
       \E a, b \in 0..Len(rq.url.host) :
          a + Len(w) + b = Len(rq.url.host)
          /\ \A j \in 1..Len(w) : LowerChar(rq.url.host[a + j]) = w[j]

NotBlocked == ~HostHasBlockedWord

FirstOk(script) ==
    IF \E i \in 1..Len(script) : script[i] = "ok"
       THEN CHOOSE i \in 1..Len(script) :
              script[i] = "ok" /\ \A j \in 1..(i - 1) : script[j] # "ok"
       ELSE 0

\* C3: a url that is not blocked gets at most max_retries + 1 attempts, none after
\* the first 2xx response; when every attempt fails, a non-2xx response included,
\* exactly max_retries + 1 attempts are made and the result is None
C3_RetryBound ==
    (Requested /\ NotBlocked) =>
        LET gets == Gets(rs.log) IN
        /\ Len(gets) <= rq.max_retries + 1
        /\ \A i \in 1..Len(gets) : gets[i].met = "ok" => i = Len(gets)
        /\ \A i \in 1..Len(gets) : gets[i].met = rq.script[i]
        /\ FirstOk(rq.script) > 0 =>
              Len(gets) = FirstOk(rq.script) /\ rs.result = "response"
        /\ FirstOk(rq.script) = 0 =>
              Len(gets) = rq.max_retries + 1 /\ rs.result = None

\* every attempt failed, one of them with a non-2xx response
C3_Witness ==
    /\ Requested /\ NotBlocked
    /\ rq.max_retries = MaxRetries
    /\ FirstOk(rq.script) = 0
    /\ \E i \in 1..Len(rq.script) : rq.script[i] = "status"
    /\ Len(Gets(rs.log)) = MaxRetries + 1
    /\ rs.result = None

\* C4: a url whose host contains a blocklist word is answered None with no sleep
\* and no network call
C4_BlockedNoCall ==
    (Requested /\ ~NotBlocked) => rs.result = None /\ rs.log = <<>>

\* a host that contains a blocklist word without being one
C4_Witness ==
    /\ Requested /\ ~NotBlocked
    /\ \A i \in 1..Len(blocked) : blocked[i] # Lower(rq.url.host)
    /\ \E i \in 1..Len(rq.script) : rq.script[i] = "ok"
    /\ rs.result = None

\* C5 as stated: a call that meets its artifact on disk has requested nothing
C5_SkipWithoutFetch == skipped => kinds = {}

\* C5, amended: a call that meets its artifact returns True at once, with no page
\* walk run for that title; the check comes after the
\* requests that find the title out (the series discovery and the series page,
\* or the story page), so at least one request was made; and no page walk runs
\* for a title whose artifact is on disk
C5_SkipAfterTitleFetch ==
    /\ skipped =>
          /\ at = "done" /\ result = "True"
          /\ safe \in files
          /\ kinds # {}
          /\ "walk" \notin kinds
          /\ "single" \notin kinds => "chapter" \notin kinds /\ renders = <<>>
    /\ at \in {"chapter", "walk"} => safe \notin files

\* the artifact of the story page's title was met after the series discovery
C5_Witness ==
    /\ skipped /\ full_series
    /\ kinds = {"find", "single"}
    /\ result = "True"

\* C7 as stated: the page index used for the k-th popped url is k
C7_IndexIsPopPosition ==
    at \in {"chapter", "walk"} =>
        \A k \in 1..Len(popped) : popped[k].part = k

\* the position of the first paragraph of page number src in the content
FirstParaAt(c, src) ==
    IF \E i \in 1..Len(c) : c[i].tag = "para" /\ c[i].src = src /\ c[i].n = 1
       THEN CHOOSE i \in 1..Len(c) : c[i].tag = "para" /\ c[i].src = src /\ c[i].n = 1
       ELSE 0

\* C7, amended: the page index advances once for every popped url whose fetch
\* went through and stays for a url whose fetch failed: the index used for the
\* k-th popped url is 1 + the number of fetched urls before it; a PART marker
\* stands before the paragraphs of exactly the pages with an index above 1 and
\* carries that index
C7_IndexCountsFetchedPages ==
    at \in {"chapter", "walk"} =>
        /\ \A k \in 1..Len(popped) : popped[k].part = 1 + FetchedBefore(k)
        /\ part = 1 + FetchedBefore(Len(popped) + 1)
        /\ \A k \in 1..Len(popped) :
              LET i == FirstParaAt(Content, popped[k].u.path) IN
              i > 0 =>
                 /\ popped[k].ok
                 /\ popped[k].part = 1 => i = 1
                 /\ popped[k].part > 1 =>
                       /\ i > 1
                       /\ Content[i - 1].tag = "PART"
                       /\ Content[i - 1].n = popped[k].part
        /\ \A i \in 1..Len(Content) :
              Content[i].tag = "PART" =>
                 /\ i < Len(Content)
                 /\ Content[i + 1].tag = "para" /\ Content[i + 1].n = 1

\* the second popped url failed, and the third one's paragraphs stand behind
\* PART 2, not PART 3
C7_Witness ==
    /\ at = "chapter" /\ Len(popped) = 3
    /\ popped[1].ok /\ ~popped[2].ok /\ popped[3].ok
    /\ popped[3].part = 2
    /\ \E i \in 1..Len(pc) : pc[i].tag = "PART" /\ pc[i].n = 2

\* the headings of a document, in order
Headings(doc) == SelectSeq(doc, LAMBDA x : x.tag = "Chapter")

\* where the i-th finished chapter starts in the document: behind the headings
\* and the contents of the chapters before it
ChapterStart(i) ==
    1 + SumOver([j \in 1..(i - 1) |-> 1 + Len(chapOut[j].content)], 1..(i - 1))

\* the series branch is assembling or has rendered its document
InSeriesDoc == at = "chapter" \/ (at = "done" /\ ~skipped /\ ch_links # <<>>)

\* C8: the series document holds one heading per chapter, numbered 1..N by the
\* chapter's place in the sorted list and not by its order key, each heading
\* right before that chapter's content, also for a chapter that fetched no page
\* or found no paragraph
C8_OneHeadingPerChapter ==
    InSeriesDoc =>
        /\ Len(Headings(allc)) = Len(chapOut)
        /\ at = "done" => Len(chapOut) = Len(ch_links) /\ written = allc
        /\ \A i \in 1..Len(chapOut) :
              LET h == ChapterStart(i) IN
              /\ h <= Len(allc)
              /\ allc[h].tag = "Chapter"
              /\ allc[h].n = i
              /\ allc[h].label = ch_links[i].ct
              /\ SubSeq(allc, h + 1, h + Len(chapOut[i].content)) = chapOut[i].content
        /\ Len(allc) = ChapterStart(Len(chapOut) + 1) - 1

\* a rendered series of two chapters whose keys are not 1 and 2, the first with
\* no page fetched, the second with a paragraph
C8_Witness ==
    /\ at = "done" /\ result = "True" /\ ~skipped
    /\ Len(ch_links) = 2 /\ Len(chapOut) = 2
    /\ ch_links[1].num = 2 /\ ch_links[2].num = 999
    /\ chapOut[1].pages = 0 /\ chapOut[1].content = <<>>
    /\ chapOut[2].content # <<>>

\* C9: find_series_link_from_all_pages pops in discovery order, requests each
\* popped url once, returns the series link of the first fetched page that has
\* one and requests nothing after it; it returns None only with the queue empty
\* and no fetched page with a series link
C9_FirstSeriesLinkWins ==
    (full_series /\ at \in {"find", "series", "single"} /\ "single" \notin kinds
       /\ (at = "single" => series = NoUrl)) =>
        /\ \A k \in 1..Len(popped) :
              popped[k].ser # NoUrl =>
                 k = Len(popped) /\ at = "series" /\ series = popped[k].ser
        /\ at = "series" =>
              /\ popped # <<>>
              /\ popped[Len(popped)].ok
              /\ popped[Len(popped)].ser = series
              /\ series # NoUrl
        /\ at = "single" =>
              /\ todo = <<>>
              /\ \A k \in 1..Len(popped) : popped[k].ser = NoUrl
        /\ Len(popped) <= Len(disc)
        /\ \A k \in 1..Len(popped) : popped[k].u = disc[k]
        /\ SumOver(fetched, DOMAIN fetched) = Len(popped)

\* the third popped page had the link; one before it could not be fetched
C9_Witness ==
    /\ at = "series" /\ Len(popped) = 3
    /\ ~popped[2].ok
    /\ series = popped[3].ser /\ series = SeriesUrl
    /\ todo = <<>>

\* C6: the chapter list is sorted by the order key, stably: the sorted list is a
\* permutation of the refs found, its keys never fall, and refs with one key keep
\* the order they were found in
C6_StableSort ==
    at \in {"sorted", "chapter"} =>
        /\ Len(ch_links) = Len(discovered)
        /\ \E f \in Permutations(1..Len(discovered)) :
              /\ \A i \in 1..Len(ch_links) : ch_links[i] = discovered[f[i]]
              /\ \A i, j \in 1..Len(ch_links) :
                    i < j =>
                       /\ ch_links[i].num <= ch_links[j].num
                       /\ ch_links[i].num = ch_links[j].num => f[i] < f[j]

\* keys 999, 2, 999, 1 as found give the fourth, the second, the first, the third
C6_Witness ==
    /\ at = "sorted" /\ Len(discovered) = 4
    /\ discovered[1].num = 999 /\ discovered[2].num = 2
    /\ discovered[3].num = 999 /\ discovered[4].num = 1
    /\ ch_links = <<discovered[4], discovered[2], discovered[1], discovered[3]>>

\* the listing urls requested so far
PagesAsked == {pagelog[k].page : k \in 1..Len(pagelog)}

\* a listing page after which the loop goes on: fetched, with story links
GoesOn(e) == e.ok /\ e.n > 0

\* C10: scrape_category requests at most max_pages listing pages and no listing
\* url twice; a page without story links, a failed request or a derived url
\* that was already visited ends the loop, and no page is requested after it.
C10_ListingLoopStops ==
    cat_at # "idle" =>
        /\ Len(pagelog) <= max_pages
        /\ \A i, j \in 1..Len(pagelog) : i < j => pagelog[i].page # pagelog[j].page
        /\ PagesAsked = pages_done
        /\ \A k \in 1..(Len(pagelog) - 1) : GoesOn(pagelog[k])
        /\ Len(pagelog) > 0 /\ ~GoesOn(pagelog[Len(pagelog)]) =>
              /\ cat_at = "end"
              /\ stop = IF pagelog[Len(pagelog)].ok THEN "empty" ELSE "fetch"
        /\ stop = "visited" =>
              /\ cat_at = "end" /\ cur <= max_pages
              /\ Len(pagelog) = cur - 1
              /\ PageFor(base_url, cur) \in PagesAsked
        /\ stop = "nourl" => cat_at = "end" /\ pagelog = <<>> /\ base_url = EmptyUrl
        /\ stop = "cap" => cat_at = "end" /\ Len(pagelog) = max_pages
        /\ cat_at = "end" <=> stop # "none"

\* the second listing url derived is the base url again, and the loop ends there
C10_Witness ==
    /\ stop = "visited" /\ Len(pagelog) = 1 /\ cur = 2
    /\ PageFor(base_url, 2) = base_url
    /\ max_pages = MaxPages

\* the story urls scrape_story was called with for the page at hand
CalledUrls == [i \in 1..Len(calls) |-> calls[i].u]

NoRepeat(q) == \A i, j \in 1..Len(q) : i < j => q[i] # q[j]

RECURSIVE SumN(_)
SumN(log) == IF log = <<>> THEN 0 ELSE Head(log).n + SumN(Tail(log))

\* C11 as stated: story links are deduplicated by url across all listing pages
\* of a crawl, so no story url is given to scrape_story, or counted as found,
\* more than once.
C11_DedupAcrossPages ==
    cat_at # "idle" =>
        /\ again = {}
        /\ cat_at \in {"loop", "end"} => found = Cardinality(handed)

\* C11 amended: story links are deduplicated by url within each listing page
\* only. The links of one page are pairwise different and scrape_story gets each
\* of them once for that page, and found is the sum of the per-page counts; a
\* url is given to scrape_story again only when a later page lists it again.
C11_DedupWithinPage ==
    cat_at # "idle" =>
        /\ NoRepeat([i \in 1..Len(stories) |-> stories[i].u])
        /\ NoRepeat(CalledUrls)
        /\ \A k \in 1..Len(pagelog) : pagelog[k].n <= pagelog[k].raw
        /\ found = SumN(pagelog)
        /\ again # {} => Len(pagelog) >= 2
        /\ again \subseteq handed

\* a page listed a url twice and a later page listed a handed url again
C11_Witness ==
    /\ cat_at = "end" /\ again # {}
    /\ \E k \in 1..Len(pagelog) : pagelog[k].n < pagelog[k].raw
    /\ found > Cardinality(handed)

\* the story urls of the listing page at hand, in the order of its links
PageUrls == [i \in 1..Len(stories) |-> stories[i].u]

\* C12: a failed story never ends a category crawl. On every fetched listing
\* page with story links scrape_story is called for each link of the page, in
\* the page's order, whatever the earlier calls returned, and after the last
\* link the crawl goes on with the next page.
C12_CrawlOutlivesFailures ==
    cat_at # "idle" =>
        /\ stop # "story"
        /\ cat_at = "stories" =>
              /\ story_i <= Len(stories)
              /\ CalledUrls = SubSeq(PageUrls, 1, story_i - 1)
        /\ cat_at \in {"loop", "end"} /\ Len(pagelog) > 0
              /\ GoesOn(pagelog[Len(pagelog)]) =>
                 /\ CalledUrls = PageUrls
                 /\ cur = Len(pagelog) + 1
        /\ saved <= found

\* both stories of the first page failed, and the crawl is at the second page
C12_Witness ==
    /\ cat_at = "stories" /\ Len(pagelog) = 2
    /\ pagelog[1].n = 2 /\ saved = 0
    /\ Len(calls) = 1 /\ ~calls[1].ok

\* no page of the story has given a paragraph: none in the document at hand,
\* none in a document handed to create_pdf
NoParagraphs ==
    /\ \A i \in 1..Len(allc) : allc[i].tag # "para"
    /\ \A i \in 1..Len(renders) : renders[i].nparas = 0

\* C13: when no page of a story contributes a paragraph, in single-story mode
\* and in series mode alike, scrape_story returns False and create_pdf is never
\* called, so no artifact is written.
C13_NoParagraphsNoArtifact ==
    at = "done" /\ ~skipped /\ NoParagraphs =>
        /\ result = "False"
        /\ renders = <<>>
        /\ written = <<>>

RECURSIVE SumRenders(_)
SumRenders(log) == IF log = <<>> THEN 0 ELSE Head(log).nrenders + SumRenders(Tail(log))

\* the call of scrape_story at hand has returned without finding its artifact:
\* create_pdf was called once, with the page's title and the page's paragraphs
\* in page order, and no heading or PART marker among them
PlainDocument ==
    /\ Len(renders) = 1
    /\ renders[1].title = title
    /\ title \in TitlesAt(surl) /\ title # stitle
    /\ allc = pp /\ pp \in ParaSeqs(surl)
    /\ renders[1].items = Len(pp) /\ renders[1].nparas = Len(pp)
    /\ renders[1].ok => written = pp /\ result = "True"

C15_HeadingsAreHeadingBlocks ==
    at = "done" /\ ~skipped /\ result = "True" /\ ch_links # <<>> =>
        \A i \in 1..Len(written) :
            written[i].tag = "Chapter" =>
                Blocks(title, written)[i + 1].style = "Heading1"

\* the label has a (Ch.|Pt.) <digits> token
HasToken(ct) == \E i \in 1..Len(ct) : TokenNo(ct[i]) > 0

\* the trimmed label and the trimmed title are the same but for case
EqualsTitle(ct, st) ==
    LET a == Strip(ct)
        b == Strip(st)
    IN  Len(a) = Len(b) /\ \A k \in 1..Len(a) : LowerChar(a[k]) = LowerChar(b[k])

\* the label begins with the title, but for case
BeginsWithTitle(ct, st) ==
    Len(ct) >= Len(st) /\ \A k \in 1..Len(st) : LowerChar(ct[k]) = LowerChar(st[k])

\* C16 as stated: the order key is the token's number if the label has a token;
\* otherwise 1 if and only if the trimmed label equals the series title but for
\* case; otherwise 999.
C16_KeyOneOnlyForTitle ==
    at \in {"sort", "sorted"} =>
        \A i \in 1..Len(discovered) :
            LET ct == discovered[i].ct
                k  == discovered[i].num
            IN  /\ HasToken(ct) => k = FirstToken(ct)
                /\ ~HasToken(ct) => k \in {1, 999}
                /\ ~HasToken(ct) => (k = 1 <=> EqualsTitle(ct, stitle))

\* C16 amended: the order key is the token's number if the label has a token;
\* otherwise 1 if and only if the trimmed label is the trimmed title or the
\* label begins with the title but for case; otherwise 999.
C16_KeyOneForTitlePrefix ==
    at \in {"sort", "sorted"} =>
        \A i \in 1..Len(discovered) :
            LET ct == discovered[i].ct
                k  == discovered[i].num
            IN  /\ HasToken(ct) => k = FirstToken(ct)
                /\ ~HasToken(ct) => k \in {1, 999}
                /\ ~HasToken(ct) =>
                      (k = 1 <=> (Strip(ct) = Strip(stitle) \/ BeginsWithTitle(ct, stitle)))

\* a chapter list with a label that begins with the title and goes on, one that
\* is the title behind a blank, one with a token and one of neither kind
C16_Witness ==
    /\ at = "sorted"
    /\ \E i, j, k, l \in 1..Len(discovered) :
          /\ discovered[i].ct = <<"T", "x">> /\ discovered[i].num = 1
          /\ discovered[j].ct = <<" ", "T">> /\ discovered[j].num = 1
          /\ discovered[k].ct = <<"T", " ", "Ch.2">> /\ discovered[k].num = 2
          /\ discovered[l].ct = <<"x">> /\ discovered[l].num = 999

\* the ids, in document order, of the elements of the page that satisfy P
IdsWhere(P(_)) ==
    LET keep == {i \in 1..Len(html) : P(html[i])}
        RECURSIVE Up(_)
        Up(i) == IF i > Len(html) THEN <<>>
                 ELSE (IF i \in keep THEN <<i>> ELSE <<>>) \o Up(i + 1)
    IN  Up(1)

\* the qualifying paragraphs the s-th strategy finds
Yield(s) ==
    LET Hit(e) == /\ (s = Len(body_sels) \/ body_sels[s] \in e.within)
                  /\ e.len > 10 /\ ~e.link
    IN  IdsWhere(Hit)

LongOnes == LET Long(e) == e.len > 20 IN IdsWhere(Long)

Ids(q) == [i \in 1..Len(q) |-> q[i].id]

\* C17: the paragraphs are the qualifying ones (stripped length above 10, no
\* story link) of the first strategy in list order that finds more than one;
\* if no strategy finds more than one they are exactly the p elements of the
\* page with stripped text longer than 20, in document order.
C17_FirstStrategyWithTwo ==
    at = "extracted" =>
        \/ \E s \in 1..Len(body_sels) :
              /\ Len(Yield(s)) > 1
              /\ \A r \in 1..(s - 1) : Len(Yield(r)) <= 1
              /\ Ids(pp) = Yield(s)
        \/ /\ \A s \in 1..Len(body_sels) : Len(Yield(s)) <= 1
           /\ Ids(pp) = LongOnes

\* the first container holds one qualifying paragraph, the second two, and the
\* page a third one outside both: the second strategy's two are returned
C17_Witness ==
    /\ at = "extracted" /\ Len(html) = 3
    /\ Len(Yield(1)) = 1 /\ Len(Yield(2)) = 2 /\ Len(Yield(3)) = 3
    /\ Ids(pp) = Yield(2)

\* the url carries page=n
IsPageNo(url, n) == \E i \in 1..Len(url.query) : url.query[i] = PageParam(n)

\* C18: scrape_category requests the listing pages 1..max_pages in sequence
\* without gaps: first base_url, and as n-th request (n >= 2) the url derived
\* for page number n, so that page=2 follows base_url.
C18_PagesInSequence ==
    cat_at # "idle" =>
        /\ Len(pagelog) >= 1 => pagelog[1].page = base_url
        /\ \A n \in 2..Len(pagelog) : IsPageNo(pagelog[n].page, n)

\* the step pops a url of a page traversal whose fetch fails
FailedPop ==
    /\ at \in {"chapter", "walk"}
    /\ Len(popped') = Len(popped) + 1
    /\ ~popped'[Len(popped')].ok

\* what the page traversal has collected is still there, in place
KeepsContent ==
    /\ Len(Content') >= Len(Content)
    /\ SubSeq(Content', 1, Len(Content)) = Content

\* the url popped last in a page traversal was not fetched
FailedLast ==
    /\ at \in {"chapter", "walk"}
    /\ popped # <<>> /\ ~popped[Len(popped)].ok

WasPopped(u) == \E k \in 1..Len(popped) : popped[k].u = u

\* the queue is empty and every url that was ever in it has been popped
Drained ==
    /\ todo = <<>>
    /\ \A i \in 1..Len(disc) : WasPopped(disc[i])

\* C19: a popped url whose fetch fails during a page traversal adds nothing to
\* the content (no paragraph, no PART marker), discovers no url and leaves the
\* page index alone, and the traversal goes on: the loop is not left, the rest
\* of the queue stays, every queued url is a discovered one, and after a failed
\* fetch the queue is emptied with every discovered url popped; no step of a
\* traversal takes away content that was collected before.
C19_FailedFetchIsSkipped ==
    /\ [][FailedPop =>
            /\ Content' = Content
            /\ disc' = disc
            /\ part' = part
            /\ at' = at
            /\ todo' = Tail(todo)]_vars
    /\ [][(at \in {"chapter", "walk"} /\ at' = at) => KeepsContent]_vars
    /\ [](at \in {"chapter", "walk"} =>
            \A k \in 1..Len(popped) :
               ~popped[k].ok =>
                  \A i \in 1..Len(Content) : Content[i].src # popped[k].u.path)
    /\ [](at \in {"chapter", "walk"} => \A i \in 1..Len(todo) : InSeq(todo[i], disc))
    /\ FailedLast ~> Drained

\* the first page gave a paragraph, the second url failed, and the third, in
\* the queue at that time, was popped and fetched after it; the paragraph of
\* the first page is still the head of the content
C19_Witness ==
    /\ at = "walk" /\ todo = <<>> /\ Len(popped) = 3
    /\ popped[1].ok /\ ~popped[2].ok /\ popped[3].ok
    /\ Len(disc) = 3 /\ disc[3] = popped[3].u
    /\ ~popped[2].back /\ popped[1].u = surl
    /\ allc # <<>> /\ allc[1].tag = "para" /\ allc[1].src = surl.path

NoDuplicates(q) == \A i, j \in 1..Len(q) : q[i] = q[j] => i = j

\* C20: while a traversal loop runs its queue holds no url twice and none that
\* is in the visited set, so the url at the head of the queue is never one the
\* skip branch would drop; every url that was discovered is either popped or
\* still queued, and when the queue is empty the number of popped urls is the
\* number of distinct urls discovered.
C20_QueueHoldsOnlyNewUrls ==
    InTraversal =>
        /\ NoDuplicates(todo)
        /\ \A i \in 1..Len(todo) : todo[i] \notin done
        /\ todo # <<>> => Head(todo) \notin done
        /\ NoDuplicates(disc)
        /\ Len(popped) + Len(todo) = Len(disc)
        /\ done = {popped[k].u : k \in 1..Len(popped)}
        /\ todo = <<>> =>
              Len(popped) = Cardinality({disc[i] : i \in 1..Len(disc)})

\* a single story's traversal that ended: the story page named the same next
\* url twice, that url was queued and popped once, and its page linked back to
\* the story page
C20_Witness ==
    /\ at = "walk" /\ todo = <<>>
    /\ Len(surl_links) = 2 /\ surl_links[1] = surl_links[2] /\ surl_links[1] # surl
    /\ Len(popped) = 2 /\ popped[2].u = surl_links[1]
    /\ popped[2].ok /\ popped[2].back
    /\ disc = <<surl, surl_links[1]>>

====
